---- MODULE Spec2Model ----
(***************************************************************************)
(* A model of mylogin/my_print_defaults.py: the search for a MySQL tool    *)
(* (get_tool_path) and the MyDefaultsReader class that runs the tool       *)
(* my_print_defaults, parses its output and caches it per group.           *)
(*                                                                         *)
(* Text is modelled as a sequence of one-character strings, a directory    *)
(* path as the sequence of its components (a trailing "" component is a    *)
(* trailing separator), a file name as the sequence of its parts (so that  *)
(* tool + ".exe" is a concatenation), a file path as a record [dir, file]. *)
(***************************************************************************)
EXTENDS Integers, Sequences, FiniteSets, TLC

VARIABLES
    \* the environment of the process
    os_name,        \* os.name: "posix" or "nt"
    env_PATH,       \* the entries of os.environ['PATH'], split on os.pathsep
    fs_dirs,        \* the directories that exist (normalised paths)
    fs_files,       \* the regular files that exist ([dir, file] records)
    py_major,       \* sys.version_info[0]: setup.py admits 2.7 and higher
    env_APPDATA,    \* os.environ['APPDATA'], NoDir when it is not set
    \* the last call of get_tool_path: its arguments and its outcome
    call,
    \* the last text handed to the parsing code, and what it made of it
    parse,
    \* one MyDefaultsReader
    _basedir,
    _verbosity,
    _tool_path,     \* NoPath is None
    _config_data,   \* a function from the cached groups to their data
    \* what the reader's operations leave behind them
    unclosed,       \* the files finished operations opened and left open
    invocations,    \* per group: the runs of the tool with the group as argument
    last            \* the last operation, its arguments and its outcome

envVars == <<os_name, env_PATH, fs_dirs, fs_files, py_major, env_APPDATA>>
locateVars == <<call>>
parseVars == <<parse>>
readerVars == <<_basedir, _verbosity, _tool_path, _config_data, unclosed,
                invocations, last>>
vars == <<os_name, env_PATH, fs_dirs, fs_files, py_major, env_APPDATA, call,
          parse, _basedir, _verbosity, _tool_path, _config_data, unclosed,
          invocations, last>>

----------------------------------------------------------------------------
(* Bounds of the model *)

MaxFiles == 2
MaxLines == 2
MaxCalls == 2

----------------------------------------------------------------------------
(* Paths and file names *)

\* None, and the empty string: both are false in `if basedir:`
NoDir == <<>>
NoFile == <<>>
NoPath == [dir |-> NoDir, file |-> NoFile]

\* os.path.join(path_str, name) for a directory name: a separator is
\* inserted unless path_str already ends with one
JoinDir(path_str, name) ==
    IF Len(path_str) > 0 /\ path_str[Len(path_str)] = ""
    THEN SubSeq(path_str, 1, Len(path_str) - 1) \o <<name>>
    ELSE path_str \o <<name>>

\* os.path.normpath(path): empty components (doubled or trailing
\* separators) are dropped
NormPath(path) == SelectSeq(path, LAMBDA c : c # "")

\* os.path.join(norm_path, tool)
JoinFile(norm_path, tool) == [dir |-> norm_path, file |-> tool]

IsDir(norm_path) == norm_path \in fs_dirs
IsFile(toolpath) == toolpath \in fs_files

_MY_PRINT_DEFAULTS_TOOL == <<"my_print_defaults">>
Mysqld == <<"mysqld">>
MysqldExe == <<"mysqld", ".exe">>
MysqldNtExe == <<"mysqld-nt", ".exe">>

\* tool + ".exe"
AddExe(tool) == tool \o <<".exe">>

UsrLocalMysql == <<"usr", "local", "mysql", "">>
UsrSbin == <<"usr", "sbin", "">>
UsrShare == <<"usr", "share", "">>

----------------------------------------------------------------------------
(* get_tool_path *)

_add_basedir(search_paths, path_str) ==
    search_paths \o <<path_str,
                      JoinDir(path_str, "sql"),
                      JoinDir(path_str, "client"),
                      JoinDir(path_str, "share"),
                      JoinDir(path_str, "scripts"),
                      JoinDir(path_str, "bin"),
                      JoinDir(path_str, "libexec"),
                      JoinDir(path_str, "mysql")>>

\* BuildSearchPaths with the built-in bases added after the caller's default
\* paths instead of only in their absence
BuildSearchPaths_extend(basedir, defaults_paths, search_PATH) ==
    LET fromBasedir == IF basedir # NoDir
                       THEN _add_basedir(<<>>, basedir)
                       ELSE <<>>
        withDefaults == _add_basedir(
                            _add_basedir(
                                _add_basedir(fromBasedir \o defaults_paths,
                                             UsrLocalMysql),
                                UsrSbin),
                            UsrShare)
    IN  IF search_PATH THEN withDefaults \o env_PATH ELSE withDefaults

\* lines 75-95: the list of the directories to search, in order
BuildSearchPaths(basedir, defaults_paths, search_PATH) ==
    LET fromBasedir == IF basedir # NoDir
                       THEN _add_basedir(<<>>, basedir)
                       ELSE <<>>
        withDefaults == IF Len(defaults_paths) > 0
                        THEN fromBasedir \o defaults_paths
                        ELSE _add_basedir(
                                 _add_basedir(
                                     _add_basedir(fromBasedir, UsrLocalMysql),
                                     UsrSbin),
                                 UsrShare)
    IN  IF search_PATH THEN withDefaults \o env_PATH ELSE withDefaults

\* lines 97-98
FixTool(tool, fix_ext) ==
    IF os_name = "nt" /\ fix_ext THEN AddExe(tool) ELSE tool

\* FirstHit with the legacy name accepted whatever the tool is
FirstHit_anyTool(norm_path, tool) ==
    LET toolpath == JoinFile(norm_path, tool)
        alt == JoinFile(norm_path, MysqldNtExe)
    IN  IF IsFile(toolpath) THEN toolpath
        ELSE IF IsFile(alt) THEN alt
        ELSE NoPath

\* lines 103-110: the file found in the directory norm_path, or NoPath
FirstHit(norm_path, tool) ==
    LET toolpath == JoinFile(norm_path, tool)
        alt == JoinFile(norm_path, MysqldNtExe)
    IN  IF IsFile(toolpath) THEN toolpath
        ELSE IF tool = MysqldExe /\ IsFile(alt) THEN alt
        ELSE NoPath

\* lines 100-110: the loop over search_paths from index i on; probed is the
\* index of the last entry the loop looked at
RECURSIVE SearchFrom(_, _, _)
SearchFrom(search_paths, i, tool) ==
    IF i > Len(search_paths)
    THEN [found |-> FALSE, toolpath |-> NoPath, probed |-> Len(search_paths)]
    ELSE LET norm_path == NormPath(search_paths[i])
         IN  IF IsDir(norm_path) /\ FirstHit(norm_path, tool) # NoPath
             THEN [found |-> TRUE, toolpath |-> FirstHit(norm_path, tool),
                   probed |-> i]
             ELSE SearchFrom(search_paths, i + 1, tool)

\* NotFoundOutcome with the required flag ignored
NotFoundOutcome_always(required) == "UtilError"

\* lines 111-114
NotFoundOutcome(required) == IF required THEN "UtilError" ELSE "None"

get_tool_path(basedir, tool, fix_ext, required, defaults_paths, search_PATH) ==
    LET search_paths == BuildSearchPaths(basedir, defaults_paths, search_PATH)
        fixed == FixTool(tool, fix_ext)
        r == SearchFrom(search_paths, 1, fixed)
    IN  [outcome |-> IF r.found THEN "path" ELSE NotFoundOutcome(required),
         toolpath |-> r.toolpath,
         \* the tool named by "Cannot find location of %s."
         errtool |-> IF ~r.found /\ required THEN fixed ELSE NoFile,
         search_paths |-> search_paths,
         probed |-> r.probed]

----------------------------------------------------------------------------
(* Text: what the temporary file holds after the tool has run *)

LF == "\n"
\* a byte that is not valid UTF-8
BadByte == "xFF"
Whitespace == {" ", LF, "\t", "\r"}
Digits == <<"0", "1", "2", "3", "4", "5", "6", "7", "8", "9">>

IsDigit(ch) == \E d \in DOMAIN Digits : Digits[d] = ch
\* int(ch)
DigitVal(ch) == (CHOOSE d \in DOMAIN Digits : Digits[d] = ch) - 1

\* the position of the first ch in text at or after position i, or 0
RECURSIVE IndexFrom(_, _, _)
IndexFrom(text, ch, i) ==
    IF i > Len(text) THEN 0
    ELSE IF text[i] = ch THEN i
    ELSE IndexFrom(text, ch, i + 1)

\* out_file.readline(): the text up to and with the first line terminator
Readline(text) ==
    LET nl == IndexFrom(text, LF, 1)
    IN  IF nl = 0 THEN text ELSE SubSeq(text, 1, nl)

\* out_file.readlines(): the lines, each with its terminator
RECURSIVE Readlines(_)
Readlines(text) ==
    IF text = <<>> THEN <<>>
    ELSE LET line == Readline(text)
         IN  <<line>> \o Readlines(SubSeq(text, Len(line) + 1, Len(text)))

\* line.decode('utf-8') succeeds
Decodable(line) == \A i \in DOMAIN line : line[i] # BadByte

\* s.split("=", 1)
SplitOnce(s) ==
    LET eq == IndexFrom(s, "=", 1)
    IN  IF eq = 0 THEN <<s>>
        ELSE <<SubSeq(s, 1, eq - 1), SubSeq(s, eq + 1, Len(s))>>

\* s.strip()
RECURSIVE Strip(_)
Strip(s) ==
    IF s = <<>> THEN s
    ELSE IF s[1] \in Whitespace THEN Strip(Tail(s))
    ELSE IF s[Len(s)] \in Whitespace THEN Strip(SubSeq(s, 1, Len(s) - 1))
    ELSE s

\* needle in haystack
Contains(haystack, needle) ==
    \E i \in 1..(Len(haystack) - Len(needle) + 1) :
        SubSeq(haystack, i, i + Len(needle) - 1) = needle

----------------------------------------------------------------------------
(* _read_group_data, lines 299-323: the parsing of the tool's output *)

\* an option's value: a string, or True
StrValue(text) == [flag |-> FALSE, text |-> text]
TrueValue == [flag |-> TRUE, text |-> <<>>]

\* lines 306-315: the (key, value) pair of one decoded line
ParseLine(line) ==
    LET key_value == SplitOnce(SubSeq(line, 3, Len(line)))
    IN  IF Len(key_value) = 2
        THEN [ok |-> TRUE, key |-> key_value[1],
              value |-> StrValue(Strip(key_value[2]))]
        ELSE IF Len(key_value) = 1
        THEN [ok |-> TRUE, key |-> key_value[1], value |-> TrueValue]
        ELSE [ok |-> FALSE, key |-> <<>>, value |-> TrueValue]

\* dict(results): a later pair replaces an earlier one with the same key
DictOf(results) ==
    [k \in {results[i].key : i \in DOMAIN results} |->
        LET latest == CHOOSE i \in DOMAIN results :
                          /\ results[i].key = k
                          /\ \A j \in DOMAIN results :
                                results[j].key = k => j <= i
        IN  results[latest].value]

\* the value stored for a group: None, or a dictionary
NoneData == [none |-> TRUE, opts |-> <<>>]
DictData(results) == [none |-> FALSE, opts |-> DictOf(results)]

\* lines 318-321
GroupData(results) ==
    IF Len(results) > 0 THEN DictData(results) ELSE NoneData

\* lines 303-321: the loop over the lines from index i on, results being
\* the pairs of the lines before
RECURSIVE ParseLines(_, _, _)
ParseLines(lines, i, results) ==
    IF i > Len(lines)
    THEN [outcome |-> "return", data |-> GroupData(results), line |-> <<>>]
    ELSE IF ~Decodable(lines[i])
    THEN [outcome |-> "UnicodeDecodeError", data |-> NoneData,
          line |-> lines[i]]
    ELSE IF ~ParseLine(lines[i]).ok
    THEN [outcome |-> "UtilError", data |-> NoneData, line |-> lines[i]]
    ELSE ParseLines(lines, i + 1, Append(results, ParseLine(lines[i])))

\* lines 300-321 on the text the tool wrote
ReadGroupOutput(text) == ParseLines(Readlines(text), 1, <<>>)

----------------------------------------------------------------------------
(* check_tool_version, lines 236-251: the parsing of the --version output *)

VerPrefix == <<"V", "e", "r", " ">>

\* the pattern (?:Ver )(\d)\.(\d) matches text at position i
VerAt(text, i) ==
    /\ i + 6 <= Len(text)
    /\ SubSeq(text, i, i + 3) = VerPrefix
    /\ IsDigit(text[i + 4])
    /\ text[i + 5] = "."
    /\ IsDigit(text[i + 6])

\* re.search: the leftmost match, or 0
VerSearch(text) ==
    IF \E i \in DOMAIN text : VerAt(text, i)
    THEN CHOOSE i \in DOMAIN text :
             VerAt(text, i) /\ \A j \in 1..(i - 1) : ~VerAt(text, j)
    ELSE 0

\* lines 244-248
VersionAtLeast(major, minor, major_version, minor_version) ==
    \/ major_version < major
    \/ major_version = major /\ minor_version <= minor

\* lines 236-251 on the text the tool wrote: readline() gives bytes, which
\* Python 3 refuses to search with a str pattern
CheckVersionOutput(text, major_version, minor_version) ==
    LET line == Readline(text)
        m == VerSearch(line)
    IN  IF py_major >= 3
        THEN [outcome |-> "TypeError", value |-> FALSE]
        ELSE IF m # 0
        THEN [outcome |-> "return",
              value |-> VersionAtLeast(DigitVal(line[m + 4]),
                                       DigitVal(line[m + 6]),
                                       major_version, minor_version)]
        ELSE [outcome |-> "UtilError", value |-> FALSE]

\* line 272-279
LoginPathText == <<"l", "o", "g", "i", "n", "-", "p", "a", "t", "h">>
CheckHelpOutput(text) == Contains(text, LoginPathText)

----------------------------------------------------------------------------
(* The environments and the arguments the model draws from *)

HomeDir == <<"home", "u">>
OptMysql == <<"opt", "mysql">>
OptMysqlBin == <<"opt", "mysql", "bin">>
UsrBin == <<"usr", "bin">>
Usr == <<"usr">>

DirPool == {OptMysqlBin, HomeDir, UsrBin}
NamePool == {_MY_PRINT_DEFAULTS_TOOL, MysqldExe, MysqldNtExe}
FilePool == {JoinFile(d, n) : d \in DirPool, n \in NamePool}

SeqsUpTo(S, n) == UNION {[1..k -> S] : k \in 0..n}

Parents(files) == {f.dir : f \in files}

\* values of PATH, of basedir and of defaults_paths
PathValues == {<<>>, <<UsrBin>>, <<UsrSbin, UsrBin>>}
BasedirArgs == {NoDir, Usr}
DefaultsArgs == {<<>>, <<HomeDir>>, <<HomeDir, OptMysqlBin>>}
ToolArgs == {_MY_PRINT_DEFAULTS_TOOL, Mysqld}

NoCall == [made |-> FALSE]
NoParse == [fn |-> "none"]

Groups == {"client", "mysql"}
NoLast == [op |-> "none"]

\* no reader has been constructed
NoReader ==
    /\ _basedir = NoDir
    /\ _verbosity = 0
    /\ _tool_path = NoPath
    /\ _config_data = <<>>
    /\ unclosed = {}
    /\ invocations = [g \in Groups |-> 0]
    /\ last = NoLast

InitEnv ==
    /\ os_name \in {"posix", "nt"}
    /\ env_PATH \in PathValues
    /\ \E files \in SUBSET FilePool :
          /\ Cardinality(files) <= MaxFiles
          /\ fs_files = files
          /\ fs_dirs \in {Parents(files), Parents(files) \cup {UsrBin}}

InitLocate ==
    /\ InitEnv
    /\ py_major = 3
    /\ env_APPDATA = NoDir
    /\ call = NoCall
    /\ parse = NoParse
    /\ NoReader

\* one call of get_tool_path
GetToolPath ==
    /\ ~call.made
    /\ \E basedir \in BasedirArgs, tool \in ToolArgs, fix_ext \in BOOLEAN,
          required \in BOOLEAN, search_PATH \in BOOLEAN,
          defaults_paths \in DefaultsArgs :
          \E ret \in {get_tool_path(basedir, tool, fix_ext, required,
                                     defaults_paths, search_PATH)} :
              call' = [made |-> TRUE,
                       basedir |-> basedir, tool |-> tool, fix_ext |-> fix_ext,
                       required |-> required,
                       defaults_paths |-> defaults_paths,
                       search_PATH |-> search_PATH, ret |-> ret]
    /\ UNCHANGED <<envVars, parseVars, readerVars>>

\* the caller has taken the outcome of the call
CallDone ==
    /\ call.made
    /\ call' = NoCall
    /\ UNCHANGED <<envVars, parseVars, readerVars>>

NextLocate == GetToolPath \/ CallDone

SpecLocate == InitLocate /\ [][NextLocate]_vars

----------------------------------------------------------------------------
(* The parsing code applied to the texts a tool can write *)

Chars_user == <<"u", "s", "e", "r">>
Chars_password == <<"p", "a", "s", "s", "w", "o", "r", "d">>
Chars_flag == <<"f", "l", "a", "g">>
Chars_root == <<"r", "o", "o", "t">>
Chars_garbage == <<"g", "a", "r", "b", "a", "g", "e">>

KeyPool == {Chars_user, Chars_password, Chars_flag}
ValuePool == {<<>>, Chars_root, <<" ", "b", " ">>, <<"a", "=", "b">>}
GarbagePool == {Chars_garbage, <<"x">>}
TermPool == {<<LF>>, <<>>}

\* the lines a tool can print: --key=value, --key, and lines of neither form
LinePool ==
    [kind : {"option"}, key : KeyPool, value : ValuePool, term : TermPool]
    \cup [kind : {"flag"}, key : KeyPool, value : {<<>>}, term : TermPool]
    \cup [kind : {"garbage"}, key : GarbagePool, value : {<<>>},
          term : TermPool]

RenderLine(l) ==
    IF l.kind = "option" THEN <<"-", "-">> \o l.key \o <<"=">> \o l.value \o l.term
    ELSE IF l.kind = "flag" THEN <<"-", "-">> \o l.key \o l.term
    ELSE l.key \o l.term

RECURSIVE RenderLines(_)
RenderLines(lines) ==
    IF lines = <<>> THEN <<>>
    ELSE RenderLine(Head(lines)) \o RenderLines(Tail(lines))

Chars_my == <<"m", "y", " ">>
Chars_forLinux == <<" ", "f", "o", "r", " ", "l", "i", "n", "u", "x", LF>>

\* first lines with a version
VersionLines ==
    {pre \o VerPrefix \o <<d1, ".", d2>> \o Chars_forLinux :
        pre \in {<<>>, Chars_my}, d1 \in {"5", "6"}, d2 \in {"5", "6", "7"}}

\* --version outputs: a version in the first line, in the second, or nowhere
VersionTexts ==
    VersionLines
    \cup {<<LF>> \o v : v \in VersionLines}
    \cup {<<>>, Chars_my \o <<LF>>, VerPrefix \o <<"5", LF>>,
          <<"v", "e", "r", " ", "5", ".", "7", LF>>}

MajorArgs == {4, 5, 6}
MinorArgs == {5, 6, 7}

InitParse ==
    /\ os_name = "posix"
    /\ env_PATH = <<>>
    /\ fs_dirs = {}
    /\ fs_files = {}
    /\ py_major \in {2, 3}
    /\ env_APPDATA = NoDir
    /\ call = NoCall
    /\ parse = NoParse
    /\ NoReader

\* the group parsing of _read_group_data applied to one output
ParseGroupText ==
    /\ parse.fn = "none"
    /\ \E lines \in SeqsUpTo(LinePool, MaxLines) :
          parse' = [fn |-> "group", lines |-> lines,
                    text |-> RenderLines(lines),
                    ret |-> ReadGroupOutput(RenderLines(lines))]
    /\ UNCHANGED <<envVars, locateVars, readerVars>>

\* the version parsing of check_tool_version applied to one output
ParseVersionText ==
    /\ parse.fn = "none"
    /\ \E text \in VersionTexts, major_version \in MajorArgs,
          minor_version \in MinorArgs :
          parse' = [fn |-> "version", text |-> text,
                    major_version |-> major_version,
                    minor_version |-> minor_version,
                    ret |-> CheckVersionOutput(text, major_version,
                                               minor_version)]
    /\ UNCHANGED <<envVars, locateVars, readerVars>>

\* the caller has taken the outcome
ParseDone ==
    /\ parse.fn # "none"
    /\ parse' = NoParse
    /\ UNCHANGED <<envVars, locateVars, readerVars>>

NextParse == ParseGroupText \/ ParseVersionText \/ ParseDone

SpecParse == InitParse /\ [][NextParse]_vars

----------------------------------------------------------------------------
(* MyDefaultsReader *)

\* my_login_config_path, lines 117-125
my_login_config_path ==
    IF os_name = "posix"
    THEN [outcome |-> "return", path |-> HomeDir]
    ELSE IF env_APPDATA = NoDir
    THEN [outcome |-> "KeyError", path |-> NoDir]
    ELSE [outcome |-> "return", path |-> env_APPDATA \o <<"MySQL">>]

\* search_my_print_defaults_tool, lines 189-213, for a reader with this
\* basedir: the outcome, and the tool path to store
search_my_print_defaults_tool(basedir, search_paths) ==
    LET config_path == my_login_config_path
        default_paths == <<config_path.path>> \o search_paths
        found == get_tool_path(basedir, _MY_PRINT_DEFAULTS_TOOL, TRUE, TRUE,
                               default_paths, TRUE)
    IN  IF config_path.outcome # "return"
        THEN [outcome |-> "KeyError", stored |-> FALSE, tool_path |-> NoPath]
        ELSE IF found.outcome = "path"
        THEN [outcome |-> "return", stored |-> TRUE,
              tool_path |-> found.toolpath]
        ELSE [outcome |-> "UtilError", stored |-> FALSE, tool_path |-> NoPath]

\* the assertion without its test
ToolPathFound_unchecked(tool_path) == TRUE

\* assert self._tool_path, lines 222, 257 and 285
ToolPathFound(tool_path) == tool_path # NoPath

NoFiles == {}

\* the files open when subprocess.call is reached: the temporary file, and
\* the null file when verbosity is not above 0 (lines 227-234)
OpenedFiles(verbosity) ==
    IF verbosity > 0 THEN {"out_file"} ELSE {"out_file", "null_file"}

\* the files still open at an exit after out_file.close(): nothing closes
\* null_file
AfterClose(verbosity) == OpenedFiles(verbosity) \ {"out_file"}

\* an outcome of an operation that stops at its assertion
AssertionFailed ==
    [outcome |-> "AssertionError", value |-> FALSE, called |-> FALSE,
     ran |-> FALSE, left |-> NoFiles]

\* an outcome of an operation in which subprocess.call raised
CallFailed(verbosity) ==
    [outcome |-> "OSError", value |-> FALSE, called |-> TRUE, ran |-> FALSE,
     left |-> OpenedFiles(verbosity)]

\* check_tool_version, lines 215-251; run is what subprocess.call does
check_tool_version(run, major_version, minor_version) ==
    IF ~ToolPathFound(_tool_path) THEN AssertionFailed
    ELSE IF ~run.ok THEN CallFailed(_verbosity)
    ELSE LET v == CheckVersionOutput(run.text, major_version, minor_version)
         IN  [outcome |-> v.outcome, value |-> v.value, called |-> TRUE,
              ran |-> TRUE, left |-> AfterClose(_verbosity)]

\* check_login_path_support, lines 253-279
check_login_path_support(run) ==
    IF ~ToolPathFound(_tool_path) THEN AssertionFailed
    ELSE IF ~run.ok THEN CallFailed(_verbosity)
    ELSE [outcome |-> "return", value |-> CheckHelpOutput(run.text),
          called |-> TRUE, ran |-> TRUE, left |-> AfterClose(_verbosity)]

\* the assignment with the dictionary replaced instead of extended
StoreGroup_replace(config_data, group, data) == [g \in {group} |-> data]

\* self._config_data[group] = ..., lines 318-321
StoreGroup(config_data, group, data) ==
    [g \in DOMAIN config_data \cup {group} |->
        IF g = group THEN data ELSE config_data[g]]

\* _read_group_data, lines 281-323: the outcome and the cache after it
_read_group_data(group, run) ==
    IF ~ToolPathFound(_tool_path)
    THEN [AssertionFailed EXCEPT !.value = NoneData]
         @@ [config_data |-> _config_data]
    ELSE IF ~run.ok
    THEN [CallFailed(_verbosity) EXCEPT !.value = NoneData]
         @@ [config_data |-> _config_data]
    ELSE LET p == ReadGroupOutput(run.text)
         IN  IF p.outcome = "return"
             THEN [outcome |-> "return", value |-> p.data, called |-> TRUE,
                   ran |-> TRUE, left |-> AfterClose(_verbosity),
                   config_data |-> StoreGroup(_config_data, group, p.data)]
             ELSE \* the exception leaves the loop before out_file.close()
                  [outcome |-> p.outcome, value |-> NoneData,
                   called |-> TRUE, ran |-> TRUE,
                   left |-> OpenedFiles(_verbosity),
                   config_data |-> _config_data]

\* the lookup that never finds the group
CacheHit_never(config_data, group) == FALSE

\* self._config_data[group] raises no KeyError, lines 329-331
CacheHit(config_data, group) == group \in DOMAIN config_data

\* get_group_data, lines 325-333
get_group_data(group, run) ==
    IF CacheHit(_config_data, group)
    THEN [outcome |-> "return", value |-> _config_data[group],
          called |-> FALSE, ran |-> FALSE, left |-> NoFiles,
          config_data |-> _config_data]
    ELSE _read_group_data(group, run)

\* an option's value, or None
NoValue == [isNone |-> TRUE, value |-> TrueValue]
SomeValue(v) == [isNone |-> FALSE, value |-> v]

\* lines 340-343: a dictionary that is not empty, and its entry
OptionOf(grp_options, opt_name) ==
    IF ~grp_options.none /\ DOMAIN grp_options.opts # {}
    THEN IF opt_name \in DOMAIN grp_options.opts
         THEN SomeValue(grp_options.opts[opt_name])
         ELSE NoValue
    ELSE NoValue

\* get_option_value, lines 335-343
get_option_value(group, opt_name, run) ==
    LET g == get_group_data(group, run)
    IN  IF g.outcome = "return"
        THEN [g EXCEPT !.value = OptionOf(g.value, opt_name)]
        ELSE [g EXCEPT !.value = NoValue]

----------------------------------------------------------------------------
(* The reader's environment, and what the tool does when it is run *)

AppData == <<"appdata">>

\* the tool's file name on this platform
ToolFile == IF os_name = "nt" THEN AddExe(_MY_PRINT_DEFAULTS_TOOL)
            ELSE _MY_PRINT_DEFAULTS_TOOL

ReaderFilePool == {JoinFile(UsrBin, ToolFile), JoinFile(OptMysqlBin, ToolFile)}

SearchPathsArgs == {<<>>, <<OptMysqlBin>>}
OptNames == {Chars_user, Chars_flag}

\* subprocess.call raises
SpawnFails == [ok |-> FALSE, text |-> <<>>]
Runs(texts) == {SpawnFails} \cup [ok : {TRUE}, text : texts]

GroupTexts ==
    {<<>>,
     <<"-", "-">> \o Chars_user \o <<"=">> \o Chars_root \o <<LF>>,
     <<"-", "-">> \o Chars_user \o <<"=", BadByte, LF>>}
ReaderVersionTexts ==
    {Chars_my \o VerPrefix \o <<"5", ".", "7">> \o Chars_forLinux,
     Chars_my \o <<LF>>}
HelpTexts ==
    {<<"-", "-">> \o LoginPathText \o <<LF>>, Chars_my \o <<LF>>}

\* MyDefaultsReader(options, find_my_print_defaults_tool), lines 145-181: the
\* states after a construction that did not raise
Init ==
    /\ os_name \in {"posix", "nt"}
    /\ env_APPDATA \in (IF os_name = "nt" THEN {NoDir, AppData} ELSE {NoDir})
    /\ env_PATH = <<UsrBin>>
    /\ fs_files \in SUBSET ReaderFilePool
    /\ fs_dirs = Parents(fs_files)
    /\ py_major \in {2, 3}
    /\ call = NoCall
    /\ parse = NoParse
    /\ _config_data = <<>>
    /\ _basedir \in {NoDir, OptMysql}
    /\ _verbosity \in {0, 1}
    /\ \E find_my_print_defaults_tool \in BOOLEAN :
          IF find_my_print_defaults_tool
          THEN /\ search_my_print_defaults_tool(_basedir, <<>>).stored
               /\ _tool_path =
                     search_my_print_defaults_tool(_basedir, <<>>).tool_path
          ELSE _tool_path = NoPath
    /\ unclosed = NoFiles
    /\ invocations = [g \in Groups |-> 0]
    /\ last = NoLast

\* the files an operation leaves open join those left open before
Leave(left) == unclosed' = unclosed \cup left

\* the files an operation that ends with this outcome leaves open: a return
\* drops the last references to them, which closes them at once where
\* objects are reference counted (refcounted) and leaves them to a later
\* collection elsewhere; an exception keeps the frame, and them, alive
LeftOpen(r, refcounted) ==
    IF r.outcome = "return" /\ refcounted THEN NoFiles ELSE r.left

\* whether the interpreter counts references matters to a return that
\* leaves files open only
Refcounting(r) ==
    IF r.outcome = "return" /\ r.left # NoFiles THEN BOOLEAN ELSE {FALSE}

\* what the tool does matters only to an operation that reaches
\* subprocess.call
RunsIfCalled(called, texts) == IF called THEN Runs(texts) ELSE {SpawnFails}

\* no operation is under way: the caller has taken the last one's outcome
Idle == last.op = "none"

SearchTool ==
    /\ Idle
    /\ \E search_paths \in SearchPathsArgs :
          \E r \in {search_my_print_defaults_tool(_basedir, search_paths)} :
              /\ _tool_path' = IF r.stored THEN r.tool_path ELSE _tool_path
              /\ last' = [op |-> "search_my_print_defaults_tool",
                          arg |-> search_paths, outcome |-> r.outcome,
                          value |-> r.stored, called |-> FALSE]
    /\ UNCHANGED <<envVars, locateVars, parseVars, _basedir, _verbosity,
                   _config_data, unclosed, invocations>>

CheckToolVersion ==
    /\ Idle
    /\ \E run \in RunsIfCalled(ToolPathFound(_tool_path), ReaderVersionTexts),
          minor_version \in {6, 8} :
          \E r \in {check_tool_version(run, 5, minor_version)} :
              /\ \E refcounted \in Refcounting(r) :
                    Leave(LeftOpen(r, refcounted))
              /\ last' = [op |-> "check_tool_version",
                          arg |-> <<5, minor_version>>,
                          outcome |-> r.outcome, value |-> r.value,
                          called |-> r.called]
    /\ UNCHANGED <<envVars, locateVars, parseVars, _basedir, _verbosity,
                   _tool_path, _config_data, invocations>>

CheckLoginPathSupport ==
    /\ Idle
    /\ \E run \in RunsIfCalled(ToolPathFound(_tool_path), HelpTexts) :
          \E r \in {check_login_path_support(run)} :
              /\ \E refcounted \in Refcounting(r) :
                    Leave(LeftOpen(r, refcounted))
              /\ last' = [op |-> "check_login_path_support", arg |-> <<>>,
                          outcome |-> r.outcome, value |-> r.value,
                          called |-> r.called]
    /\ UNCHANGED <<envVars, locateVars, parseVars, _basedir, _verbosity,
                   _tool_path, _config_data, invocations>>

\* a lookup of the group reaches subprocess.call
ReadsGroup(group) ==
    ~CacheHit(_config_data, group) /\ ToolPathFound(_tool_path)

\* the tool has run once more with the group as its argument
Invoked(group, r) ==
    /\ r.ran => invocations[group] < MaxCalls
    /\ invocations' = IF r.ran
                      THEN [invocations EXCEPT ![group] = @ + 1]
                      ELSE invocations

GetGroupData ==
    /\ Idle
    /\ \E group \in Groups :
          \E run \in RunsIfCalled(ReadsGroup(group), GroupTexts) :
          \E r \in {get_group_data(group, run)} :
              /\ \E refcounted \in Refcounting(r) :
                    Leave(LeftOpen(r, refcounted))
              /\ Invoked(group, r)
              /\ _config_data' = r.config_data
              /\ last' = [op |-> "get_group_data", arg |-> <<group>>,
                          outcome |-> r.outcome, value |-> r.value,
                          called |-> r.called]
    /\ UNCHANGED <<envVars, locateVars, parseVars, _basedir, _verbosity,
                   _tool_path>>

GetOptionValue ==
    /\ Idle
    /\ \E group \in Groups, opt_name \in OptNames :
          \E run \in RunsIfCalled(ReadsGroup(group), GroupTexts) :
          \E r \in {get_option_value(group, opt_name, run)} :
              /\ \E refcounted \in Refcounting(r) :
                    Leave(LeftOpen(r, refcounted))
              /\ Invoked(group, r)
              /\ _config_data' = r.config_data
              /\ last' = [op |-> "get_option_value",
                          arg |-> <<group, opt_name>>,
                          outcome |-> r.outcome, value |-> r.value,
                          called |-> r.called]
    /\ UNCHANGED <<envVars, locateVars, parseVars, _basedir, _verbosity,
                   _tool_path>>

\* the interpreter closes the files nothing refers to any more
Finalize ==
    /\ Idle
    /\ unclosed # NoFiles
    /\ unclosed' = NoFiles
    /\ UNCHANGED <<envVars, locateVars, parseVars, _basedir, _verbosity,
                   _tool_path, _config_data, invocations, last>>

\* the caller has taken the value the operation returned, or caught what it
\* raised
Returned ==
    /\ ~Idle
    /\ last' = NoLast
    /\ UNCHANGED <<envVars, locateVars, parseVars, _basedir, _verbosity,
                   _tool_path, _config_data, unclosed, invocations>>

Next ==
    \/ Returned
    \/ SearchTool
    \/ CheckToolVersion
    \/ CheckLoginPathSupport
    \/ GetGroupData
    \/ GetOptionValue
    \/ Finalize

Spec == Init /\ [][Next]_vars

----------------------------------------------------------------------------
(* What the claims about get_tool_path speak of, stated without the code *)

SubDirs == <<"sql", "client", "share", "scripts", "bin", "libexec", "mysql">>

\* a base directory and its seven conventional sub-directories
Expansion(base) ==
    [i \in 1..(Len(SubDirs) + 1) |->
        IF i = 1 THEN base ELSE JoinDir(base, SubDirs[i - 1])]

FallbackBases == <<UsrLocalMysql, UsrSbin, UsrShare>>

Range(seq) == {seq[i] : i \in DOMAIN seq}

\* the built-in fallback directories, as the search would normalise them
FallbackDirs ==
    {NormPath(Expansion(FallbackBases[b])[i]) :
        b \in DOMAIN FallbackBases, i \in 1..(Len(SubDirs) + 1)}

\* the candidates in the claimed order
Candidates(c) ==
    (IF c.basedir # NoDir THEN Expansion(c.basedir) ELSE <<>>)
    \o (IF c.defaults_paths # <<>>
        THEN c.defaults_paths
        ELSE Expansion(UsrLocalMysql) \o Expansion(UsrSbin)
             \o Expansion(UsrShare))
    \o (IF c.search_PATH THEN env_PATH ELSE <<>>)

\* the file name the search looks for
Searched(c) ==
    IF os_name = "nt" /\ c.fix_ext THEN c.tool \o <<".exe">> ELSE c.tool

\* the candidate directory cand exists and holds a regular file called name
Holds(cand, name) ==
    /\ NormPath(cand) \in fs_dirs
    /\ [dir |-> NormPath(cand), file |-> name] \in fs_files

\* of the candidates cands, the tool is in the Nth and in none before it
FirstAt(c, cands, N) ==
    /\ N \in 1..Len(cands)
    /\ Holds(cands[N], Searched(c))
    /\ \A k \in 1..(N - 1) : ~Holds(cands[k], Searched(c))

\* no candidate before the Nth holds the legacy name of mysqld.exe
NoLegacyBefore(c, cands, N) ==
    Searched(c) = MysqldExe =>
        \A k \in 1..(N - 1) : ~Holds(cands[k], MysqldNtExe)

ReturnsNth(c, cands, N) ==
    /\ c.ret.search_paths = cands
    /\ c.ret.outcome = "path"
    /\ c.ret.toolpath = [dir |-> NormPath(cands[N]), file |-> Searched(c)]
    /\ c.ret.probed = N

\* C2, as stated: the candidates are the expansion of basedir, then the
\* caller's default paths or else the expansions of the three built-in bases,
\* then the PATH directories; when the tool file is in the Nth candidate
\* directory and in none before it, get_tool_path returns the tool's path in
\* the Nth directory and inspects no candidate after the Nth.
C2_FirstMatchWins ==
    call.made =>
        \A cands \in {Candidates(call)} :
            \A N \in 1..Len(cands) :
                FirstAt(call, cands, N) => ReturnsNth(call, cands, N)

\* C2, amended: the same, provided that, when the name searched for is
\* mysqld.exe, no candidate directory before the Nth holds mysqld-nt.exe (the
\* legacy name is accepted in a directory that lacks mysqld.exe, so such a
\* directory wins over the Nth).
C2_FirstMatchWinsUnlessLegacy ==
    call.made =>
        \A cands \in {Candidates(call)} :
            /\ call.ret.search_paths = cands
            /\ \A N \in 1..Len(cands) :
                  FirstAt(call, cands, N) /\ NoLegacyBefore(call, cands, N)
                      => ReturnsNth(call, cands, N)

\* the tool was found in a candidate that earlier candidates, one of them an
\* existing directory without the tool, precede
C2_Witness ==
    /\ call.made
    /\ \E cands \in {Candidates(call)} :
          \E N \in 2..Len(cands) :
              /\ FirstAt(call, cands, N)
              /\ \E k \in 1..(N - 1) : NormPath(cands[k]) \in fs_dirs
              /\ call.ret.outcome = "path"
              /\ call.ret.probed = N

\* the directories the search looked at
Probed(c) == {NormPath(c.ret.search_paths[i]) : i \in 1..c.ret.probed}

\* C3, as stated: with a non-empty defaults_paths the built-in fallback bases
\* and their sub-directories are never probed, whatever basedir, the
\* PATH-search flag and PATH are.
C3_FallbacksNeverProbed ==
    call.made /\ call.defaults_paths # <<>> =>
        Probed(call) \cap FallbackDirs = {}

\* the directories the caller or the environment names
NamedDirs(c) ==
    {NormPath(d) : d \in
        (IF c.basedir # NoDir THEN Range(Expansion(c.basedir)) ELSE {})
        \cup Range(c.defaults_paths)
        \cup (IF c.search_PATH THEN Range(env_PATH) ELSE {})}

\* C3, amended: with a non-empty defaults_paths the built-in fallback bases
\* add no candidate: the candidates are the expansion of basedir, the default
\* paths and the PATH entries only, so a fallback directory is probed only
\* when basedir's expansion, defaults_paths or PATH names it.
C3_FallbacksNotAdded ==
    call.made /\ call.defaults_paths # <<>> =>
        /\ Len(call.ret.search_paths) =
              (IF call.basedir # NoDir THEN Len(SubDirs) + 1 ELSE 0)
              + Len(call.defaults_paths)
              + (IF call.search_PATH THEN Len(env_PATH) ELSE 0)
        /\ Probed(call) \subseteq NamedDirs(call)

\* default paths were given and the search went through every candidate
C3_Witness ==
    /\ call.made
    /\ call.defaults_paths # <<>>
    /\ call.basedir # NoDir
    /\ call.search_PATH /\ env_PATH # <<>>
    /\ call.ret.outcome # "path"
    /\ call.ret.probed = Len(call.ret.search_paths)

\* no candidate directory holds the tool, under its name or its legacy name
Exhausted(c) ==
    \A cands \in {Candidates(c)} :
        \A k \in 1..Len(cands) :
            /\ ~Holds(cands[k], Searched(c))
            /\ Searched(c) = MysqldExe => ~Holds(cands[k], MysqldNtExe)

\* C7: when no candidate directory holds the tool, get_tool_path fails with
\* an error naming the tool if required, and returns None if not required;
\* a path it returns is a regular file in a candidate directory.
C7_NotFound ==
    call.made =>
        /\ Exhausted(call) /\ call.required =>
              /\ call.ret.outcome = "UtilError"
              /\ call.ret.errtool = Searched(call)
        /\ Exhausted(call) /\ ~call.required => call.ret.outcome = "None"
        /\ call.ret.outcome = "path" =>
              /\ call.ret.toolpath \in fs_files
              /\ call.ret.toolpath.dir \in fs_dirs
              /\ \E cands \in {Candidates(call)} :
                    \E k \in 1..Len(cands) :
                        call.ret.toolpath.dir = NormPath(cands[k])

\* a search that was not required went through existing directories, found
\* nothing and returned None
C7_Witness ==
    /\ call.made
    /\ ~call.required
    /\ Exhausted(call)
    /\ \E k \in 1..Len(Candidates(call)) :
          NormPath(Candidates(call)[k]) \in fs_dirs
    /\ call.ret.outcome = "None"

----------------------------------------------------------------------------
(* What the claims about parsing speak of, stated without the code *)

\* text without the whitespace around it
Trim(text) ==
    LET solid == {i \in DOMAIN text : text[i] \notin Whitespace}
    IN  IF solid = {} THEN <<>>
        ELSE SubSeq(text,
                    CHOOSE i \in solid : \A j \in solid : i <= j,
                    CHOOSE i \in solid : \A j \in solid : j <= i)

\* every line is --key=value or --key, and ends with a line terminator
WellFormed(lines) ==
    \A i \in DOMAIN lines :
        lines[i].kind \in {"option", "flag"} /\ lines[i].term = <<LF>>

LastWith(lines, k) ==
    CHOOSE i \in DOMAIN lines :
        lines[i].key = k /\ \A j \in DOMAIN lines : lines[j].key = k => j <= i

ExpectedValue(lines, k) ==
    IF lines[LastWith(lines, k)].kind = "option"
    THEN [flag |-> FALSE, text |-> Trim(lines[LastWith(lines, k)].value)]
    ELSE [flag |-> TRUE, text |-> <<>>]

\* C4: for an output made of lines --key=value and --key, the map returned
\* holds exactly the option names as keys (without the -- prefix and without
\* the line terminator), each with the trimmed value text of its last line,
\* or True for a bare --key.
C4_ParsedMap ==
    parse.fn = "group" /\ parse.lines # <<>> /\ WellFormed(parse.lines) =>
        /\ parse.ret.outcome = "return"
        /\ ~parse.ret.data.none
        /\ DOMAIN parse.ret.data.opts =
              {parse.lines[i].key : i \in DOMAIN parse.lines}
        /\ \A k \in DOMAIN parse.ret.data.opts :
              parse.ret.data.opts[k] = ExpectedValue(parse.lines, k)

\* C5: an output with a malformed line (no -- prefix, no =) makes the parsing
\* fail with an error that reports the line, and returns no map.
C5_GarbageRejected ==
    parse.fn = "group"
    /\ (\E i \in DOMAIN parse.lines : parse.lines[i].kind = "garbage") =>
        /\ parse.ret.outcome = "UtilError"
        /\ \E i \in DOMAIN parse.lines :
              /\ parse.lines[i].kind = "garbage"
              /\ parse.ret.line = RenderLine(parse.lines[i])

\* the first line of text holds "Ver <digit>.<digit>" at position i
HasVerAt(text, i) ==
    /\ i + 6 <= Len(text)
    /\ \A j \in i..(i + 6) : text[j] # LF
    /\ \A j \in 1..(i - 1) : text[j] # LF
    /\ <<text[i], text[i + 1], text[i + 2], text[i + 3]>> = <<"V", "e", "r", " ">>
    /\ text[i + 5] = "."
    /\ \E a, b \in 0..9 : text[i + 4] = Digits[a + 1] /\ text[i + 6] = Digits[b + 1]

\* the version at position i as one number, major first
VersionNumber(text, i) ==
    10 * (CHOOSE a \in 0..9 : text[i + 4] = Digits[a + 1])
    + (CHOOSE b \in 0..9 : text[i + 6] = Digits[b + 1])

\* C6: check_tool_version returns true exactly when the version in the first
\* line of the --version output is newer than or equal to (major, minor),
\* false when it is older, and fails with a parse error when the first line
\* holds no "Ver <digit>.<digit>".
C6_VersionCompared ==
    parse.fn = "version" =>
        IF \E i \in DOMAIN parse.text : HasVerAt(parse.text, i)
        THEN /\ parse.ret.outcome = "return"
             /\ \A i \in DOMAIN parse.text :
                   HasVerAt(parse.text, i)
                   /\ (\A j \in 1..(i - 1) : ~HasVerAt(parse.text, j))
                   => (parse.ret.value <=>
                         VersionNumber(parse.text, i) >=
                            10 * parse.major_version + parse.minor_version)
        ELSE parse.ret.outcome = "UtilError"

\* C6 on Python 2 alone (a diagnostic: the comparison itself is right)
C6_VersionComparedPy2 == py_major = 2 => C6_VersionCompared

----------------------------------------------------------------------------
(* What the claims about the reader speak of *)

QueryOps == {"check_tool_version", "check_login_path_support",
             "get_group_data", "get_option_value"}

\* a step of one of the reader's operations: last' tells which, and how it
\* ended (the other steps are the caller's, which takes the outcome, and the
\* interpreter's, which closes files)
OpStep == last.op = "none" /\ last'.op # "none"

\* the step is a lookup of group g
LookupOf(g) ==
    /\ OpStep
    /\ last'.op \in {"get_group_data", "get_option_value"}
    /\ last'.arg[1] = g

\* C1, as stated: over any sequence of get_group_data and get_option_value
\* calls the tool is run with a given group as argument at most once.
C1_AtMostOnce == \A g \in Groups : invocations[g] <= 1

\* C1, amended: the tool is run with a group as argument only by a call that
\* finds the group not cached; once a call for the group has returned, which
\* caches it (as absent when the tool printed no lines), every later call for
\* it is answered from the cache without running the tool, and
\* get_option_value returns absent for any key of a group cached as absent.
\* A call that raises after the tool ran (its output is not valid UTF-8)
\* caches nothing, so that a later call runs the tool again.
C1_OnceCached ==
    [][\A g \in Groups :
          /\ g \in DOMAIN _config_data =>
                /\ invocations'[g] = invocations[g]
                /\ LookupOf(g) =>
                      /\ last'.outcome = "return"
                      /\ ~last'.called
                      /\ last'.op = "get_group_data" =>
                            last'.value = _config_data[g]
                      /\ last'.op = "get_option_value"
                         /\ _config_data[g].none => last'.value.isNone
          /\ g \notin DOMAIN _config_data /\ g \in DOMAIN _config_data' =>
                /\ LookupOf(g)
                /\ last'.outcome = "return"
                /\ invocations'[g] = invocations[g] + 1
      ]_vars

\* a group the tool printed nothing for was asked for an option after it was
\* cached: the answer is None and the tool has run once
C1_Witness ==
    \E g \in Groups :
        /\ g \in DOMAIN _config_data
        /\ _config_data[g].none
        /\ last.op = "get_option_value"
        /\ last.arg[1] = g
        /\ ~last.called
        /\ last.value.isNone
        /\ invocations[g] = 1

\* C8: after an operation that ran a subprocess has returned or raised, no
\* scratch buffer and no null file it opened is still open.
C8_FilesReleased == unclosed = NoFiles

\* C9: on a reader without a tool path, check_tool_version,
\* check_login_path_support, get_group_data and get_option_value fail with
\* an AssertionError before subprocess.call is reached, and leave the cache,
\* the tool path and the open files as they were.
C9_NoToolPath ==
    [][OpStep /\ _tool_path = NoPath /\ last'.op \in QueryOps =>
          /\ last'.outcome = "AssertionError"
          /\ ~last'.called
          /\ invocations' = invocations
          /\ _config_data' = _config_data
          /\ _tool_path' = _tool_path
          /\ unclosed' = unclosed
      ]_vars

\* a reader whose search for the tool failed was asked for an option
C9_Witness ==
    /\ _tool_path = NoPath
    /\ last.op = "get_option_value"
    /\ last.outcome = "AssertionError"
    /\ ~last.called

\* C10: the cache is empty at construction; a group is a key only if the
\* tool has run to its end with that group as argument; no step, of a failed
\* operation or of a repeated search for the tool either, removes a key or
\* changes a cached group's data.
C10_CacheGrowsOnly ==
    /\ DOMAIN _config_data = {}
    /\ [](\A g \in DOMAIN _config_data : invocations[g] >= 1)
    /\ [][\A g \in DOMAIN _config_data :
             /\ g \in DOMAIN _config_data'
             /\ _config_data'[g] = _config_data[g]
         ]_vars

\* both groups are cached, with different data, and the tool was searched
\* for again
C10_Witness ==
    /\ DOMAIN _config_data = Groups
    /\ \E g \in Groups : _config_data[g].none
    /\ \E g \in Groups : ~_config_data[g].none
    /\ last.op = "search_my_print_defaults_tool"

====
